---- MODULE Spec2Model ----
(***************************************************************************)
(* A model of the networking and query-orchestration layer of the          *)
(* AACSearch React SDK:                                                    *)
(*   - AACSearchClient.request        (client/AACSearchClient.ts)          *)
(*   - useInstantSearch               (hooks/useInstantSearch)             *)
(*   - AACSearchClientExtended web socket session + useRealtime            *)
(*   - AACSearchClientExtended.streamConversationalSearch                  *)
(* Each component has its own specification (SpecReq, SpecIS, SpecWS,      *)
(* SpecStream); the variables of the other components stay unchanged.      *)
(*                                                                         *)
(* JavaScript is single threaded: one action is one task of the event      *)
(* loop (a UI call, a timer callback, a transport event) together with     *)
(* every synchronous call it makes.  Time is abstracted: a pending timer   *)
(* may fire at any moment until it is cleared.                             *)
(***************************************************************************)
EXTENDS Integers, Sequences, FiniteSets, Bags, TLC

\* ------------------------------------------------------------------ bounds
MaxRequests == 2       \* calls of AACSearchClient.request in one behaviour
MaxTimers == 3         \* debounce timers scheduled in one behaviour
MaxSockets == 6        \* WebSockets created in one behaviour
MaxLive == 2           \* sockets and reconnect timers alive when connect() is called
MaxUpdates == 1        \* update frames the server sends in one behaviour
MaxSent == 2           \* frames sent on one socket
MaxRecords == 2        \* records in the body of one streaming response
MaxTurns == 2          \* sendMessage calls of the conversational hook
MaxTokens == 2         \* tokens streamed to one sendMessage call
MaxValues == 2         \* values in the list of one field of a filter state

\* --------------------------------------------------------------- variables
VARIABLES
  \* AACSearchClient.request: the calls in progress
  reqs,                \* request id -> its state (see NewRequest)
  nextReq,             \* id of the next call
  \* useInstantSearch
  query, page, filters, sortBy, results, loading, error,
  debounceTimerRef,    \* id of the timer held by the ref, 0 = null
  timers,              \* timers pending in the runtime, with their closures
  nextTimer,           \* id of the next timer
  abortControllerRef,  \* id of the AbortController held by the ref, 0 = null
  hookAborted,         \* the hook's AbortControllers that were aborted
  lastReq,             \* id of the request of the newest performSearch
  lastCall,            \* the last client.search call of the hook
  timerCalls,          \* number of client.search calls made by debounce timers
  windows,             \* number of debounce windows opened so far
  \* AACSearchClientExtended web socket session
  ws,                  \* this.ws: id of the socket held, 0 = null
  sockets,             \* socket id -> [state, sent, acked] of the sockets not yet closed
  nextSock,            \* id of the next socket
  wsReconnectAttempts,
  reconnectTimers,     \* bag of the delays of the pending reconnect timers
  \* useRealtime
  connected, updates, subscribedCollections,
  \* history of the session
  delayLog,            \* delays scheduled since the attempt counter was last reset
  schedSinceAck,       \* reconnects scheduled since the last acknowledgment or connect()
  disconnected,        \* the caller disconnected and has not called connect() since
  frameDropped,        \* a frame that is not JSON was received and dropped
  \* streamConversationalSearch: one call
  responseBody,        \* the bytes of the body of the response
  responseStatus,      \* the status of the response (the code never reads it)
  delivered,           \* number of bytes reader.read() has handed over so far
  decoderPending,      \* bytes the TextDecoder holds back (an incomplete character)
  fullAnswer, result,
  chunks,              \* the arguments of the onChunk calls so far
  completeCalls, errorCalls,
  settled,             \* "pending", "resolved" or "rejected"
  streamError,         \* the error handed to onError and rethrown, or Null
  resolvedWith,        \* the value the promise resolved with, or Null
  \* useConversationalSearch
  streaming,           \* options.streaming
  messages, isLoading, isStreaming,
  convError,           \* the hook's error state
  conversationId, streamingContentRef,
  turns,               \* sendMessage call id -> [phase, tokens, onErrorCalls, setErrorCalls]
  nextTurn,            \* id of the next sendMessage call
  resetSinceSend       \* reset() was called and sendMessage has not been called since

reqVars == <<reqs, nextReq>>
isVars == <<query, page, filters, sortBy, results, loading, error,
            debounceTimerRef, timers, nextTimer, abortControllerRef,
            hookAborted, lastReq, lastCall, timerCalls, windows>>
wsVars == <<ws, sockets, nextSock, wsReconnectAttempts, reconnectTimers,
            connected, updates, subscribedCollections, delayLog,
            schedSinceAck, disconnected, frameDropped>>
streamVars == <<responseBody, responseStatus, delivered, decoderPending, fullAnswer, result,
                chunks, completeCalls, errorCalls, settled, streamError,
                resolvedWith>>
convVars == <<streaming, messages, isLoading, isStreaming, convError,
              conversationId, streamingContentRef, turns, nextTurn,
              resetSinceSend>>
vars == <<reqVars, isVars, wsVars, streamVars, convVars>>

Null == [null |-> TRUE]
Undefined == "undefined"

\* ===================================================== AACSearchClient.request
HttpErrorStatuses == {404, 500}
Founds == {0, 125}

StatusText(status) ==
  IF status = 404 THEN "Not Found" ELSE "Internal Server Error"

\* The value thrown by a rejected fetch / body read: a DOMException or Error.
AbortError == [name |-> "AbortError", message |-> "The operation was aborted",
               code |-> Undefined, details |-> Undefined, statusCode |-> 0,
   raw |-> TRUE]
TypeError == [name |-> "TypeError", message |-> "Failed to fetch",
              code |-> Undefined, details |-> Undefined, statusCode |-> 0,
   raw |-> TRUE]
SyntaxError == [name |-> "SyntaxError", message |-> "Unexpected token",
                code |-> Undefined, details |-> Undefined, statusCode |-> 0,
   raw |-> TRUE]

\* The catch block of request: an AbortError becomes the TIMEOUT error,
\* everything else is rethrown as it is.
RequestCatchNoTimeoutCode(e) == e
RequestCatch(e) ==
  IF e.name = "AbortError"
    THEN [name |-> Undefined, message |-> "Request timeout", code |-> "TIMEOUT",
          details |-> Undefined, statusCode |-> 0, raw |-> FALSE]
    ELSE e

\* The error object built for a response that is not ok.  body is what
\* response.json() yields: "unparseable", or the parsed fields.
UnparseableBody ==
  [parse |-> FALSE, message |-> Undefined, code |-> Undefined,
   details |-> Undefined]

ErrorBodies ==
  {UnparseableBody,
   [parse |-> TRUE, message |-> "Invalid API key", code |-> "AUTH",
    details |-> "key expired"],
   [parse |-> TRUE, message |-> Undefined, code |-> Undefined,
    details |-> Undefined]}

HttpErrorParseEscapes(status, body) ==
  IF ~body.parse THEN SyntaxError
  ELSE [name |-> Undefined,
        message |-> IF body.message # Undefined THEN body.message
                    ELSE "API request failed: " \o StatusText(status),
        code |-> body.code, details |-> body.details, statusCode |-> status,
        raw |-> FALSE]
HttpError(status, body) ==
  LET default == "API request failed: " \o StatusText(status)
  IN [name |-> Undefined,
      message |-> IF body.parse /\ body.message # Undefined
                    THEN body.message ELSE default,
      code |-> IF body.parse THEN body.code ELSE Undefined,
      details |-> IF body.parse THEN body.details ELSE Undefined,
      statusCode |-> status,
      raw |-> FALSE]

Failure(e) == [ok |-> FALSE, err |-> e]
Success(found) == [ok |-> TRUE, found |-> found]

\* const controller = new AbortController();
\* const timeoutId = setTimeout(() => controller.abort(), this.timeout);
\* ... await fetch(url, {signal: controller.signal})
NewRequest(owner) ==
  [owner |-> owner, phase |-> "fetching", timer |-> TRUE, aborted |-> FALSE,
   timerFired |-> FALSE, status |-> 0, body |-> Null, outcome |-> Null,
   preReset |-> FALSE]

\* A continuation of the hook is waiting in the microtask queue: it runs
\* before any other task of the event loop.
MicrotaskPending ==
  \E r \in DOMAIN reqs : reqs[r].owner = "hook" /\ reqs[r].phase = "settled"

SettleKeepsTimer(r, outcome) ==
  [reqs EXCEPT ![r].phase = "settled", ![r].outcome = outcome]
Settle(r, outcome) ==
  [reqs EXCEPT ![r].phase = "settled", ![r].timer = FALSE, ![r].outcome = outcome]

\* A caller other than the hook calls request.
RequestCall ==
  /\ nextReq <= MaxRequests
  /\ reqs' = reqs @@ (nextReq :> NewRequest("caller"))
  /\ nextReq' = nextReq + 1

\* fetch resolves with the response headers; clearTimeout(timeoutId).
FetchResolve(r, status) ==
  /\ ~MicrotaskPending
  /\ reqs[r].phase = "fetching"
  /\ reqs' = [reqs EXCEPT ![r].timer = FALSE,
                          ![r].status = status,
                          ![r].phase = IF status = 200 THEN "json" ELSE "errjson"]
  /\ UNCHANGED nextReq

\* fetch rejects with a network error; the catch block clears the timer.
FetchReject(r) ==
  /\ ~MicrotaskPending
  /\ reqs[r].phase = "fetching"
  /\ reqs' = Settle(r, Failure(RequestCatch(TypeError)))
  /\ UNCHANGED nextReq

\* The timeout timer fires: controller.abort().  The pending fetch (or body
\* read) rejects with an AbortError, which the catch block receives.
TimeoutFire(r) ==
  /\ ~MicrotaskPending
  /\ reqs[r].timer
  /\ LET fired == [reqs EXCEPT ![r].timer = FALSE, ![r].aborted = TRUE,
                               ![r].timerFired = TRUE]
     IN reqs' =
          CASE reqs[r].phase \in {"fetching", "json"} ->
                 [fired EXCEPT ![r].phase = "settled",
                               ![r].outcome = Failure(RequestCatch(AbortError))]
            [] reqs[r].phase = "errjson" ->
                 \* the inner try swallows the rejected response.json()
                 [fired EXCEPT ![r].phase = "settled",
                               ![r].outcome = Failure(RequestCatch(
                                  HttpError(reqs[r].status, UnparseableBody)))]
            [] OTHER -> fired
  /\ UNCHANGED nextReq

\* return await response.json() on an ok response.
JsonBody(r, valid, found) ==
  /\ ~MicrotaskPending
  /\ reqs[r].phase = "json"
  /\ reqs' = Settle(r, IF valid THEN Success(found)
                                ELSE Failure(RequestCatch(SyntaxError)))
  /\ UNCHANGED nextReq

\* The body of a response that is not ok: throw error.
ErrorBody(r, body) ==
  /\ ~MicrotaskPending
  /\ reqs[r].phase = "errjson"
  /\ reqs' = [Settle(r, Failure(RequestCatch(HttpError(reqs[r].status, body))))
                EXCEPT ![r].body = body]
  /\ UNCHANGED nextReq

\* The transport events of the calls in progress.
Transport ==
  \E r \in DOMAIN reqs :
    \/ \E status \in {200} \cup HttpErrorStatuses : FetchResolve(r, status)
    \/ FetchReject(r)
    \/ TimeoutFire(r)
    \/ \E valid \in BOOLEAN, found \in Founds :
         (valid \/ found = 0) /\ JsonBody(r, valid, found)
    \/ \E body \in ErrorBodies : ErrorBody(r, body)

InitReq ==
  /\ reqs = <<>>
  /\ nextReq = 1

NextReq ==
  \/ RequestCall /\ UNCHANGED <<isVars, wsVars, streamVars, convVars>>
  \/ Transport /\ UNCHANGED <<isVars, wsVars, streamVars, convVars>>

\* ============================================================ useInstantSearch
\* The options of the hook.  The caller keeps the options object and its
\* callbacks stable across renders, so that only query, page, filters and
\* sortBy re-run the debounced search effect.
Queries == {"", "laptop"}
Pages == {1, 2}
Fields == {"category"}
Values == {"Electronics"}
SortBys == {Undefined, "price:asc"}
defaultFilters == <<>>
defaultSortBy == Undefined
resultsPerPage == 10

\* A Record<string, string[]> keeps its keys in insertion order: a sequence
\* of entries [field, values] with distinct fields.
Entry(field, values) == [field |-> field, values |-> values]
HasField(f, field) == \E i \in DOMAIN f : f[i].field = field
ValuesOf(f, field) ==
  IF HasField(f, field)
    THEN f[CHOOSE i \in DOMAIN f : f[i].field = field].values
    ELSE <<>>
Includes(values, v) == \E i \in DOMAIN values : values[i] = v
RECURSIVE Without(_, _)
Without(values, v) ==
  IF values = <<>> THEN <<>>
  ELSE IF Head(values) = v THEN Without(Tail(values), v)
  ELSE <<Head(values)>> \o Without(Tail(values), v)
\* {...prev, [field]: values}
WithField(f, field, values) ==
  IF HasField(f, field)
    THEN [i \in DOMAIN f |->
            IF f[i].field = field THEN Entry(field, values) ELSE f[i]]
    ELSE Append(f, Entry(field, values))
\* const { [field]: _, ...rest } = prev
RestKeepsEmptyGroup(f, field) == WithField(f, field, <<>>)
RECURSIVE Rest(_, _)
Rest(f, field) ==
  IF f = <<>> THEN <<>>
  ELSE IF Head(f).field = field THEN Rest(Tail(f), field)
  ELSE <<Head(f)>> \o Rest(Tail(f), field)

\* values.map((v) => `${field}:=${v}`).join(' || ')
RECURSIVE JoinValues(_, _)
JoinValues(field, values) ==
  IF values = <<>> THEN ""
  ELSE IF Len(values) = 1 THEN field \o ":=" \o values[1]
  ELSE field \o ":=" \o Head(values) \o " || " \o JoinValues(field, Tail(values))
\* filterParts: one '(...)' group per field with values.length > 0
RECURSIVE FilterParts(_)
FilterParts(f) ==
  IF f = <<>> THEN <<>>
  ELSE IF Len(Head(f).values) > 0
    THEN <<"(" \o JoinValues(Head(f).field, Head(f).values) \o ")">>
         \o FilterParts(Tail(f))
  ELSE FilterParts(Tail(f))
RECURSIVE JoinParts(_)
JoinParts(parts) ==
  IF Len(parts) = 1 THEN parts[1]
  ELSE Head(parts) \o " && " \o JoinParts(Tail(parts))
FilterByEmptyString(f) ==
  IF Len(FilterParts(f)) > 0 THEN JoinParts(FilterParts(f)) ELSE ""
FilterBy(f) ==
  IF Len(FilterParts(f)) > 0 THEN JoinParts(FilterParts(f)) ELSE Undefined

\* The searchParams object of performSearch.
SearchParams(q, p, f, s) ==
  [q |-> IF q = "" THEN "*" ELSE q,
   filter_by |-> FilterBy(f),
   sort_by |-> s,
   page |-> p,
   per_page |-> resultsPerPage]

\* AACSearchClient.search: the keys appended to the query string, those whose
\* value is neither undefined nor null (page and per_page are numbers).
SearchQueryKeys(params) ==
  {k \in {"q", "filter_by", "sort_by"} : params[k] # Undefined}
    \cup {"page", "per_page"}

\* The state the effect and the callbacks close over.
Ui(q, p, f, s) == [query |-> q, page |-> p, filters |-> f, sortBy |-> s]
CurrentUi == Ui(query, page, filters, sortBy)

\* if (debounceTimerRef.current) clearTimeout(debounceTimerRef.current)
\* (the cleanup of the previous effect and the head of the next one)
ClearDebounceKeepsTimer(ts, ref) == ts
ClearDebounce(ts, ref) ==
  IF ref # 0 THEN {t \in ts : t.id # ref} ELSE ts

\* The debounced search effect, re-run after a render that changed one of
\* query, page, filters, sortBy: the pending timer is cleared and a new one
\* is set, whose callback closes over the new state.
Effect(ui) ==
  /\ nextTimer <= MaxTimers
  /\ timers' = ClearDebounce(timers, debounceTimerRef)
                  \cup {[id |-> nextTimer, ui |-> ui]}
  /\ debounceTimerRef' = nextTimer
  /\ nextTimer' = nextTimer + 1
  /\ windows' = IF timers = {} THEN windows + 1 ELSE windows

NoEffect == UNCHANGED <<timers, debounceTimerRef, nextTimer, windows>>

\* performSearch up to its await: the previous controller is aborted (its
\* signal is passed to nobody), a new one is stored, and client.search
\* issues a request, which owns its own controller and timeout timer.
PerformSearch(ui, by) ==
  /\ nextReq <= MaxRequests
  /\ hookAborted' = IF abortControllerRef # 0
                      THEN hookAborted \cup {abortControllerRef}
                      ELSE hookAborted
  /\ abortControllerRef' = nextReq
  /\ loading' = TRUE
  /\ error' = Null
  /\ reqs' = reqs @@ (nextReq :> NewRequest("hook"))
  /\ nextReq' = nextReq + 1
  /\ lastReq' = nextReq
  /\ lastCall' = [by |-> by, req |-> nextReq,
                  params |-> SearchParams(ui.query, ui.page, ui.filters, ui.sortBy)]
  /\ timerCalls' = IF by = "timer" THEN timerCalls + 1 ELSE timerCalls
  /\ UNCHANGED results

\* The AACSearchError performSearch builds in its catch block.
SearchError(err) ==
  [message |-> IF err.message = "" THEN "Search failed" ELSE err.message,
   code |-> err.code, statusCode |-> err.statusCode, details |-> err.details]

\* performSearch after its await: the try, catch and finally blocks.
PerformSearchResume(r) ==
  /\ reqs[r].owner = "hook"
  /\ reqs[r].phase = "settled"
  /\ LET out == reqs[r].outcome
     IN /\ results' = IF out.ok THEN [req |-> r, found |-> out.found] ELSE results
        /\ error' = IF ~out.ok /\ out.err.name # "AbortError"
                      THEN SearchError(out.err) ELSE error
  /\ loading' = FALSE
  /\ abortControllerRef' = 0
  /\ reqs' = [x \in DOMAIN reqs \ {r} |-> reqs[x]]
  /\ UNCHANGED <<nextReq, query, page, filters, sortBy, hookAborted, lastReq,
                 lastCall, timerCalls>>
  /\ NoEffect
  /\ UNCHANGED <<wsVars, streamVars, convVars>>

\* The debounce timer fires: performSearch(query, page) of its closure.
DebounceFire(t) ==
  /\ ~MicrotaskPending
  /\ t \in timers
  /\ timers' = timers \ {t}
  /\ PerformSearch(t.ui, "timer")
  /\ UNCHANGED <<query, page, filters, sortBy, debounceTimerRef, nextTimer,
                 windows>>
  /\ UNCHANGED <<wsVars, streamVars, convVars>>

\* refresh(): performSearch(query, page) of the last render.
Refresh ==
  /\ ~MicrotaskPending
  /\ PerformSearch(CurrentUi, "refresh")
  /\ UNCHANGED <<query, page, filters, sortBy>>
  /\ NoEffect
  /\ UNCHANGED <<wsVars, streamVars, convVars>>

UiUnchanged == UNCHANGED <<reqs, nextReq, results, loading, error,
                           abortControllerRef, hookAborted, lastReq, lastCall,
                           timerCalls, wsVars, streamVars, convVars>>

\* A render with a new state: React skips the render (and the effect) when
\* every setState call was given the value already held.
Render(q, p, f, s, changed) ==
  /\ ~MicrotaskPending
  /\ changed
  /\ query' = q /\ page' = p /\ filters' = f /\ sortBy' = s
  /\ Effect(Ui(q, p, f, s))

SetQuery(q) ==
  Render(q, page, filters, sortBy, q # query) /\ UiUnchanged

SetPage(p) ==
  Render(query, p, filters, sortBy, p # page) /\ UiUnchanged

SetSortBy(s) ==
  Render(query, page, filters, s, s # sortBy) /\ UiUnchanged

\* setFilters(f): the caller passes a new object.
SetFilters(f) ==
  Render(query, page, f, sortBy, TRUE) /\ UiUnchanged

AddFilterKeepsPage(field, value) ==
  LET currentValues == ValuesOf(filters, field)
      next == IF ~Includes(currentValues, value)
                THEN WithField(filters, field, Append(currentValues, value))
                ELSE filters
  IN Render(query, page, next, sortBy, next # filters) /\ UiUnchanged

\* addFilter(field, value): setFilters(updater) and setPage(1).
AddFilter(field, value) ==
  LET currentValues == ValuesOf(filters, field)
      next == IF ~Includes(currentValues, value)
                THEN WithField(filters, field, Append(currentValues, value))
                ELSE filters
  IN Render(query, 1, next, sortBy, next # filters \/ page # 1) /\ UiUnchanged

\* removeFilter always returns a new object.
RemoveFilter(field, value) ==
  LET newValues == Without(ValuesOf(filters, field), value)
      next == IF Len(newValues) = 0 THEN Rest(filters, field)
              ELSE WithField(filters, field, newValues)
  IN Render(query, 1, next, sortBy, TRUE) /\ UiUnchanged

ClearFilters ==
  Render(query, 1, <<>>, sortBy, TRUE) /\ UiUnchanged

\* History: the hook's requests in progress were issued before a reset().
MarkPreReset(rs) ==
  [r \in DOMAIN rs |->
     IF rs[r].owner = "hook" THEN [rs[r] EXCEPT !.preReset = TRUE] ELSE rs[r]]

ResetKeepsResults ==
  /\ ~MicrotaskPending
  /\ query' = "" /\ page' = 1 /\ filters' = defaultFilters
  /\ sortBy' = defaultSortBy
  /\ error' = Null /\ loading' = FALSE
  /\ \E rerun \in BOOLEAN :
       /\ (CurrentUi # Ui("", 1, defaultFilters, defaultSortBy)) => rerun
       /\ IF rerun THEN Effect(Ui("", 1, defaultFilters, defaultSortBy))
                   ELSE NoEffect
  /\ reqs' = MarkPreReset(reqs)
  /\ UNCHANGED <<nextReq, abortControllerRef, hookAborted, lastReq, lastCall,
                 timerCalls, results>>
  /\ UNCHANGED <<wsVars, streamVars, convVars>>

\* reset(): defaultFilters may or may not be the object filters holds, so
\* the effect may re-run even when no value changes.
Reset ==
  /\ ~MicrotaskPending
  /\ query' = "" /\ page' = 1 /\ filters' = defaultFilters
  /\ sortBy' = defaultSortBy
  /\ results' = Null /\ error' = Null /\ loading' = FALSE
  /\ \E rerun \in BOOLEAN :
       /\ (CurrentUi # Ui("", 1, defaultFilters, defaultSortBy)) => rerun
       /\ IF rerun THEN Effect(Ui("", 1, defaultFilters, defaultSortBy))
                   ELSE NoEffect
  /\ reqs' = MarkPreReset(reqs)
  /\ UNCHANGED <<nextReq, abortControllerRef, hookAborted, lastReq, lastCall,
                 timerCalls>>
  /\ UNCHANGED <<wsVars, streamVars, convVars>>

\* Math.ceil(a / b) for integers a >= 0, b > 0
CeilTruncates(a, b) == a \div b
Ceil(a, b) == IF a % b = 0 THEN a \div b ELSE (a \div b) + 1

\* const totalPages = results ? Math.ceil(results.found / resultsPerPage) : 0
totalPages ==
  IF results # Null THEN Ceil(results.found, resultsPerPage) ELSE 0

FilterInputs ==
  {<<Entry("category", <<>>)>>}

InitIS ==
  /\ query = "" /\ page = 1 /\ filters = defaultFilters
  /\ sortBy = defaultSortBy
  /\ results = Null /\ loading = FALSE /\ error = Null
  \* the effect has run once, on mount
  /\ timers = {[id |-> 1, ui |-> Ui("", 1, defaultFilters, defaultSortBy)]}
  /\ debounceTimerRef = 1
  /\ nextTimer = 2
  /\ abortControllerRef = 0
  /\ hookAborted = {}
  /\ lastReq = 0
  /\ lastCall = Null
  /\ timerCalls = 0
  /\ windows = 1

NextIS ==
  \/ \E q \in Queries : SetQuery(q)
  \/ \E p \in Pages : SetPage(p)
  \/ \E s \in SortBys : SetSortBy(s)
  \/ \E f \in FilterInputs : SetFilters(f)
  \/ \E field \in Fields, value \in Values : AddFilter(field, value)
  \/ \E field \in Fields, value \in Values : RemoveFilter(field, value)
  \/ ClearFilters
  \/ Reset
  \/ Refresh
  \/ \E t \in timers : DebounceFire(t)
  \/ \E r \in DOMAIN reqs : PerformSearchResume(r)
  \/ Transport /\ UNCHANGED <<isVars, wsVars, streamVars, convVars>>

\* The hook with two filterable fields, in any state earlier calls of
\* setQuery, setPage and setFilters can have brought it into, the timer of
\* the last of them pending; no response arrives.
AllFields == {"category", "brand"}
AllValues == {"Electronics", "Audio"}
ValueLists == UNION {[1..n -> AllValues] : n \in 0..MaxValues}
FilterStates ==
  {<<>>}
    \cup {<<Entry(f, vs)>> : f \in AllFields, vs \in ValueLists}
    \cup {<<Entry(fg[1], vs), Entry(fg[2], us)>> :
             fg \in {x \in AllFields \X AllFields : x[1] # x[2]},
             vs \in ValueLists, us \in ValueLists}

InitFilters ==
  /\ query \in Queries /\ page \in Pages /\ filters \in FilterStates
  /\ sortBy = defaultSortBy
  /\ results = Null /\ loading = FALSE /\ error = Null
  /\ timers = {[id |-> 1, ui |-> Ui(query, page, filters, sortBy)]}
  /\ debounceTimerRef = 1
  /\ nextTimer = 2
  /\ abortControllerRef = 0
  /\ hookAborted = {}
  /\ lastReq = 0
  /\ lastCall = Null
  /\ timerCalls = 0
  /\ windows = 1

NextFilters ==
  \/ \E field \in AllFields, value \in AllValues : AddFilter(field, value)
  \/ \E field \in AllFields, value \in AllValues : RemoveFilter(field, value)
  \/ ClearFilters
  \/ Refresh
  \/ \E t \in timers : DebounceFire(t)

\* ============================= AACSearchClientExtended web socket + useRealtime
maxReconnectAttempts == 5
Collections == {"products", "users"}
UpdateActions == {"create"}

\* Math.min(1000 * Math.pow(2, this.wsReconnectAttempts), 30000)
Min(a, b) == IF a < b THEN a ELSE b
ReconnectDelayFromZero(attempts) == Min(1000 * 2^(attempts - 1), 30000)
ReconnectDelayUncapped(attempts) == 1000 * 2^attempts
ReconnectDelay(attempts) == Min(1000 * 2^attempts, 30000)

\* The frames the server may send: event.data after JSON.parse, or a text
\* that is not JSON.
ServerFrames ==
  {[json |-> TRUE, type |-> "connected"], [json |-> TRUE, type |-> "pong"],
   [json |-> FALSE]}
  \cup {[json |-> TRUE, type |-> "update", action |-> a, collection |-> c,
          document |-> "doc1"] :
          a \in UpdateActions, c \in Collections}

AuthFrame == [type |-> "auth"]
SubscribeFrame(c) == [type |-> "subscribe", collection |-> c]

\* readyState of the socket with this id; a socket that closed is dropped
\* from sockets.  The state "aborting" is the CLOSING of a socket that was
\* closed before it opened: its connection is never established.
ReadyState(s) ==
  IF s \notin DOMAIN sockets THEN "closed"
  ELSE IF sockets[s].state = "aborting" THEN "closing"
  ELSE sockets[s].state

\* WebSocket.send: the frame goes out on an open socket, is discarded on a
\* closing or closed one, and send throws on a connecting one.
SendThrows(s) == ReadyState(s) = "connecting"
Send(socks, s, frame) ==
  IF s \in DOMAIN socks /\ socks[s].state = "open"
    THEN [socks EXCEPT ![s].sent = Append(@, frame)]
    ELSE socks

\* connectWebSocket: this.ws = new WebSocket(wsUrl), with its four handlers.
ConnectWebSocket(socks) ==
  /\ nextSock <= MaxSockets
  /\ sockets' = socks @@ (nextSock :> [state |-> "connecting", sent |-> <<>>,
                                       acked |-> FALSE])
  /\ ws' = nextSock
  /\ nextSock' = nextSock + 1

\* The onMessage callback of useRealtime.connect, on the connected flag.
OnMessageConnectedAnyFrame(data, c) == TRUE
OnMessageConnected(data, c) ==
  IF data.type = "connected" THEN TRUE ELSE c

\* The onMessage callback of useRealtime.connect, on the updates list.
OnMessageUpdates(data, u) ==
  IF data.type # "connected" /\ data.type = "update"
    THEN Append(u, [type |-> data.action, collection |-> data.collection,
                    document |-> data.document])
    ELSE u

\* useRealtime.connect(), called by the caller (or by the mount effect).
Connect ==
  /\ Cardinality(DOMAIN sockets) + BagCardinality(reconnectTimers) < MaxLive
  /\ ConnectWebSocket(sockets)
  /\ disconnected' = FALSE
  /\ schedSinceAck' = 0
  /\ UNCHANGED <<wsReconnectAttempts, reconnectTimers, connected, updates,
                 subscribedCollections, delayLog, frameDropped>>
  /\ UNCHANGED <<reqVars, isVars, streamVars, convVars>>

\* useRealtime.disconnect() (also the unmount cleanup):
\* client.disconnectWebSocket(), setConnected(false), membership cleared.
Disconnect ==
  /\ sockets' = IF ws # 0 /\ ws \in DOMAIN sockets
                  THEN [sockets EXCEPT ![ws].state =
                          IF @ \in {"connecting", "aborting"} THEN "aborting"
                          ELSE "closing"]
                  ELSE sockets
  /\ ws' = 0
  /\ connected' = FALSE
  /\ subscribedCollections' = {}
  /\ disconnected' = TRUE
  /\ UNCHANGED <<nextSock, wsReconnectAttempts, reconnectTimers, updates,
                 delayLog, schedSinceAck, frameDropped>>
  /\ UNCHANGED <<reqVars, isVars, streamVars, convVars>>

\* useRealtime.subscribe(collection)
SubscribeIgnoresMembership(c) ==
  /\ IF ~connected
       THEN UNCHANGED <<sockets, subscribedCollections>>
       ELSE IF ws = 0 \/ SendThrows(ws)
         THEN UNCHANGED <<sockets, subscribedCollections>>
       ELSE /\ ReadyState(ws) = "open" => Len(sockets[ws].sent) < MaxSent
            /\ sockets' = Send(sockets, ws, SubscribeFrame(c))
            /\ subscribedCollections' = subscribedCollections \cup {c}
  /\ UNCHANGED <<ws, nextSock, wsReconnectAttempts, reconnectTimers, connected,
                 updates, delayLog, schedSinceAck, disconnected, frameDropped>>
  /\ UNCHANGED <<reqVars, isVars, streamVars, convVars>>
Subscribe(c) ==
  /\ IF ~connected
       \* console.warn, return
       THEN UNCHANGED <<sockets, subscribedCollections>>
       ELSE IF c \in subscribedCollections
         THEN UNCHANGED <<sockets, subscribedCollections>>
       ELSE IF ws = 0 \/ SendThrows(ws)
         \* subscribeToCollection throws ('WebSocket not connected'), or
         \* send throws on a connecting socket: membership is not recorded
         THEN UNCHANGED <<sockets, subscribedCollections>>
       ELSE /\ ReadyState(ws) = "open" => Len(sockets[ws].sent) < MaxSent
            /\ sockets' = Send(sockets, ws, SubscribeFrame(c))
            /\ subscribedCollections' = subscribedCollections \cup {c}
  /\ UNCHANGED <<ws, nextSock, wsReconnectAttempts, reconnectTimers, connected,
                 updates, delayLog, schedSinceAck, disconnected, frameDropped>>
  /\ UNCHANGED <<reqVars, isVars, streamVars, convVars>>

\* useRealtime.unsubscribe(collection)
Unsubscribe(c) ==
  /\ subscribedCollections' = subscribedCollections \ {c}
  /\ UNCHANGED <<ws, sockets, nextSock, wsReconnectAttempts, reconnectTimers,
                 connected, updates, delayLog, schedSinceAck,
                 disconnected, frameDropped>>
  /\ UNCHANGED <<reqVars, isVars, streamVars, convVars>>

\* ws.onopen: the attempt counter is reset and the auth frame is sent on
\* this.ws, whichever socket that is by now.
OnOpen(s) ==
  /\ ReadyState(s) = "connecting"
  /\ wsReconnectAttempts' = 0
  /\ delayLog' = <<>>
  /\ LET opened == [sockets EXCEPT ![s].state = "open"]
     IN sockets' = IF ws # 0 THEN Send(opened, ws, AuthFrame) ELSE opened
  /\ UNCHANGED <<ws, nextSock, reconnectTimers, connected, updates,
                 subscribedCollections, schedSinceAck,
                 disconnected, frameDropped>>
  /\ UNCHANGED <<reqVars, isVars, streamVars, convVars>>

\* ws.onmessage: JSON.parse(event.data), then the onMessage callback; a
\* frame that does not parse is logged and dropped.
OnMessageBadFrameDisconnects(s, frame) ==
  /\ s \in DOMAIN sockets
  /\ sockets[s].state \in {"open", "closing"}
  /\ frame.json /\ frame.type = "update" => Len(updates) < MaxUpdates
  /\ IF frame.json
       THEN /\ connected' = OnMessageConnected(frame, connected)
            /\ updates' = OnMessageUpdates(frame, updates)
            /\ schedSinceAck' = IF frame.type = "connected" THEN 0
                                ELSE schedSinceAck
            /\ sockets' = IF frame.type = "connected"
                            THEN [sockets EXCEPT ![s].acked = TRUE]
                            ELSE sockets
            /\ UNCHANGED frameDropped
       ELSE /\ frameDropped' = TRUE
            /\ connected' = FALSE
            /\ UNCHANGED <<updates, schedSinceAck, sockets>>
  /\ UNCHANGED <<ws, nextSock, wsReconnectAttempts, reconnectTimers,
                 subscribedCollections, delayLog, disconnected>>
  /\ UNCHANGED <<reqVars, isVars, streamVars, convVars>>
OnMessage(s, frame) ==
  /\ s \in DOMAIN sockets
  /\ sockets[s].state \in {"open", "closing"}
  /\ frame.json /\ frame.type = "update" => Len(updates) < MaxUpdates
  /\ IF frame.json
       THEN /\ connected' = OnMessageConnected(frame, connected)
            /\ updates' = OnMessageUpdates(frame, updates)
            /\ schedSinceAck' = IF frame.type = "connected" THEN 0
                                ELSE schedSinceAck
            /\ sockets' = IF frame.type = "connected"
                            THEN [sockets EXCEPT ![s].acked = TRUE]
                            ELSE sockets
            /\ UNCHANGED frameDropped
       \* catch (error) { console.error(...) }
       ELSE /\ frameDropped' = TRUE
            /\ UNCHANGED <<connected, updates, schedSinceAck, sockets>>
  /\ UNCHANGED <<ws, nextSock, wsReconnectAttempts, reconnectTimers,
                 subscribedCollections, delayLog, disconnected>>
  /\ UNCHANGED <<reqVars, isVars, streamVars, convVars>>

\* The socket closes: ws.onerror first when the connection failed, then
\* ws.onclose, which schedules a reconnect while attempts remain.
OnClose(s, withError) ==
  /\ s \in DOMAIN sockets
  /\ sockets[s].state \in {"connecting", "aborting"} => withError
  /\ sockets' = [x \in DOMAIN sockets \ {s} |-> sockets[x]]
  /\ connected' = IF withError THEN FALSE ELSE connected
  /\ IF wsReconnectAttempts < maxReconnectAttempts
       THEN /\ wsReconnectAttempts' = wsReconnectAttempts + 1
            /\ reconnectTimers' = reconnectTimers
                 (+) SetToBag({ReconnectDelay(wsReconnectAttempts + 1)})
            /\ delayLog' = Append(delayLog, ReconnectDelay(wsReconnectAttempts + 1))
            /\ schedSinceAck' = schedSinceAck + 1
       ELSE UNCHANGED <<wsReconnectAttempts, reconnectTimers, delayLog,
                        schedSinceAck>>
  /\ UNCHANGED <<ws, nextSock, updates, subscribedCollections,
                 disconnected, frameDropped>>
  /\ UNCHANGED <<reqVars, isVars, streamVars, convVars>>

\* A reconnect timer fires: this.connectWebSocket(onMessage, onError).
ReconnectFire(delay) ==
  /\ BagIn(delay, reconnectTimers)
  /\ reconnectTimers' = reconnectTimers (-) SetToBag({delay})
  /\ ConnectWebSocket(sockets)
  /\ UNCHANGED <<wsReconnectAttempts, connected, updates, subscribedCollections,
                 delayLog, schedSinceAck, disconnected, frameDropped>>
  /\ UNCHANGED <<reqVars, isVars, streamVars, convVars>>

InitWS ==
  /\ ws = 0
  /\ sockets = <<>>
  /\ nextSock = 1
  /\ wsReconnectAttempts = 0
  /\ reconnectTimers = EmptyBag
  /\ connected = FALSE
  /\ updates = <<>>
  /\ subscribedCollections = {}
  /\ delayLog = <<>>
  /\ schedSinceAck = 0
  /\ disconnected = FALSE
  /\ frameDropped = FALSE

NextWS ==
  \/ Connect
  \/ Disconnect
  \/ \E c \in Collections : Subscribe(c)
  \/ \E c \in Collections : Unsubscribe(c)
  \/ \E s \in DOMAIN sockets : OnOpen(s)
  \/ \E s \in DOMAIN sockets, frame \in ServerFrames : OnMessage(s, frame)
  \/ \E s \in DOMAIN sockets, withError \in BOOLEAN : OnClose(s, withError)
  \/ \E delay \in BagToSet(reconnectTimers) : ReconnectFire(delay)

\* The same session driven by a caller that calls connect() only while no
\* socket is connecting or open and no reconnect is pending.
ConnectWhenIdle ==
  /\ \A s \in DOMAIN sockets : sockets[s].state \notin {"connecting", "open"}
  /\ reconnectTimers = EmptyBag
  /\ Connect

NextWSIdle ==
  \/ ConnectWhenIdle
  \/ Disconnect
  \/ \E c \in Collections : Subscribe(c)
  \/ \E c \in Collections : Unsubscribe(c)
  \/ \E s \in DOMAIN sockets : OnOpen(s)
  \/ \E s \in DOMAIN sockets, frame \in ServerFrames : OnMessage(s, frame)
  \/ \E s \in DOMAIN sockets, withError \in BOOLEAN : OnClose(s, withError)
  \/ \E delay \in BagToSet(reconnectTimers) : ReconnectFire(delay)

\* ================== AACSearchClientExtended.streamConversationalSearch
\* The body of the response is a sequence of bytes.  A record is the line 'data: <json>';
\* the JSON text of a token record is written '{', the bytes of its content,
\* '}', the one of the result record '{', 'r', '}'; "nl" is the line feed.
\* The character E is encoded in two bytes, c3 a9.
PrefixChars == <<"d", "a", "t", "a", ":", " ">>
TokenRecord(contentBytes) == PrefixChars \o <<"{">> \o contentBytes \o <<"}", "nl">>
ResultRecord == PrefixChars \o <<"{", "r", "}", "nl">>
KeepAlive == <<":", "nl">>
Records == {TokenRecord(<<"a">>), TokenRecord(<<"c3", "a9">>), ResultRecord,
            KeepAlive}
\* The response of the stream endpoint to a request it refuses: an error
\* status with a JSON error body, '{message}', or an HTML page.
StreamErrorStatuses == HttpErrorStatuses \cup {401}
StreamErrorBodies ==
  {<<"{", "m", "e", "s", "s", "a", "g", "e", "}">>,
   <<"<", "h", "t", "m", "l", ">">>}
RECURSIVE Flatten(_)
Flatten(seqs) ==
  IF seqs = <<>> THEN <<>> ELSE Head(seqs) \o Flatten(Tail(seqs))
Bodies == {Flatten(rs) : rs \in UNION {[1..n -> Records] : n \in 0..MaxRecords}}

\* decoder.decode(value, {stream: true}): the characters of the bytes, the
\* bytes of an incomplete character being held back for the next call.
\* Malformed input decodes to the replacement character "?".
RECURSIVE Decode(_, _)
Decode(pending, bytes) ==
  IF bytes = <<>> THEN [text |-> <<>>, pending |-> pending]
  ELSE LET b == Head(bytes)
           step == IF pending = <<"c3">>
                     THEN IF b = "a9" THEN [emit |-> <<"E">>, pending |-> <<>>]
                          ELSE IF b = "c3" THEN [emit |-> <<"?">>, pending |-> <<"c3">>]
                          ELSE [emit |-> <<"?", b>>, pending |-> <<>>]
                     ELSE IF b = "c3" THEN [emit |-> <<>>, pending |-> <<"c3">>]
                          ELSE IF b = "a9" THEN [emit |-> <<"?">>, pending |-> <<>>]
                          ELSE [emit |-> <<b>>, pending |-> <<>>]
           rest == Decode(step.pending, Tail(bytes))
       IN [text |-> step.emit \o rest.text, pending |-> rest.pending]

\* chunk.split('\n')
RECURSIVE SplitLines(_, _)
SplitLines(text, line) ==
  IF text = <<>> THEN <<line>>
  ELSE IF Head(text) = "nl" THEN <<line>> \o SplitLines(Tail(text), <<>>)
  ELSE SplitLines(Tail(text), Append(line, Head(text)))

\* line.startsWith('data: ')
StartsWithData(line) ==
  Len(line) >= Len(PrefixChars) /\ SubSeq(line, 1, Len(PrefixChars)) = PrefixChars

\* The data of the result record the server sends.
ResultData ==
  [conversation_id |-> "c1", sources |-> [hits |-> <<"h1">>, found |-> 1],
   suggested_questions |-> <<"q1">>]

\* JSON.parse(line.slice(6)): the parsed payload, or a SyntaxError.
JsonParse(text) ==
  IF Len(text) = 3 /\ text[1] = "{" /\ text[3] = "}" /\ text[2] \notin {"{", "}"}
    THEN IF text[2] = "r"
           THEN [ok |-> TRUE, type |-> "result", data |-> ResultData]
           ELSE [ok |-> TRUE, type |-> "token", content |-> text[2]]
    ELSE [ok |-> FALSE]

\* The for loop over the lines of one chunk.  st is the parser state
\* [fullAnswer, result, chunks, thrown]; a JSON.parse that throws ends the loop.
RECURSIVE ForLines(_, _)
ForLines(lines, st) ==
  IF lines = <<>> \/ st.thrown THEN st
  ELSE LET line == Head(lines)
           data == JsonParse(SubSeq(line, Len(PrefixChars) + 1, Len(line)))
       IN IF ~StartsWithData(line) THEN ForLines(Tail(lines), st)
          ELSE IF ~data.ok THEN [st EXCEPT !.thrown = TRUE]
          ELSE IF data.type = "token"
            THEN ForLines(Tail(lines),
                   [st EXCEPT !.fullAnswer = @ \o data.content,
                              !.chunks = Append(@, data.content)])
          ELSE ForLines(Tail(lines),
                   [st EXCEPT !.result = data.data])

\* One turn of the read loop on a chunk of bytes: from the parser state and
\* the decoder state to the new ones.
ReadChunk(st, pending, bytes) ==
  LET dec == Decode(pending, bytes)
  IN [st |-> ForLines(SplitLines(dec.text, <<>>), st), pending |-> dec.pending]

\* The value the promise resolves with.
Resolved(st) ==
  [conversation_id |-> IF st.result = Null THEN "" ELSE st.result.conversation_id,
   answer |-> st.fullAnswer,
   sources |-> IF st.result = Null THEN [hits |-> <<>>, found |-> 0]
               ELSE st.result.sources,
   suggested_questions |-> IF st.result = Null THEN <<>>
                           ELSE st.result.suggested_questions]

ParserState == [fullAnswer |-> fullAnswer, result |-> result, chunks |-> chunks,
                thrown |-> FALSE]

\* const { done, value } = await reader.read() with done = false: the next
\* n bytes of the body arrive as one chunk.
Read(n) ==
  /\ settled = "pending"
  /\ delivered + n <= Len(responseBody)
  /\ LET r == ReadChunk(ParserState, decoderPending,
                        SubSeq(responseBody, delivered + 1, delivered + n))
     IN /\ fullAnswer' = r.st.fullAnswer
        /\ result' = r.st.result
        /\ chunks' = r.st.chunks
        /\ decoderPending' = r.pending
        \* catch (error) { options.onError?.(error); throw error; }
        /\ settled' = IF r.st.thrown THEN "rejected" ELSE settled
        /\ errorCalls' = IF r.st.thrown THEN errorCalls + 1 ELSE errorCalls
        /\ streamError' = IF r.st.thrown THEN SyntaxError ELSE streamError
  /\ delivered' = delivered + n
  /\ UNCHANGED <<responseBody, responseStatus, completeCalls, resolvedWith>>
  /\ UNCHANGED <<reqVars, isVars, wsVars, convVars>>

\* reader.read() yields done: options.onComplete?.() and the return.
ReadDone ==
  /\ settled = "pending"
  /\ delivered = Len(responseBody)
  /\ completeCalls' = completeCalls + 1
  /\ settled' = "resolved"
  /\ resolvedWith' = Resolved(ParserState)
  /\ UNCHANGED <<responseBody, responseStatus, delivered, decoderPending,
                 fullAnswer, result,
                 chunks, errorCalls, streamError>>
  /\ UNCHANGED <<reqVars, isVars, wsVars, convVars>>

\* reader.read() rejects: the catch block calls onError and rethrows.
ReadErrorCompletes ==
  /\ settled = "pending"
  /\ completeCalls' = completeCalls + 1
  /\ settled' = "resolved"
  /\ resolvedWith' = Resolved(ParserState)
  /\ streamError' = TypeError
  /\ UNCHANGED <<responseBody, responseStatus, delivered, decoderPending,
                 fullAnswer, result,
                 chunks, errorCalls>>
  /\ UNCHANGED <<reqVars, isVars, wsVars, convVars>>
ReadError ==
  /\ settled = "pending"
  /\ errorCalls' = errorCalls + 1
  /\ settled' = "rejected"
  /\ streamError' = TypeError
  /\ UNCHANGED <<responseBody, responseStatus, delivered, decoderPending,
                 fullAnswer, result,
                 chunks, completeCalls, resolvedWith>>
  /\ UNCHANGED <<reqVars, isVars, wsVars, convVars>>

InitStreamState ==
  /\ delivered = 0
  /\ decoderPending = <<>>
  /\ fullAnswer = ""
  /\ result = Null
  /\ chunks = <<>>
  /\ completeCalls = 0
  /\ errorCalls = 0
  /\ settled = "pending"
  /\ streamError = Null
  /\ resolvedWith = Null

NextStream ==
  \/ \E n \in 1..Len(responseBody) : Read(n)
  \/ ReadDone
  \/ ReadError

\* ============================================== useConversationalSearch
\* A sendMessage call is "fetching" until the client has the response (the
\* whole answer, or the body of the stream), "reading" while the stream is
\* read, and then "completed" or "failed".
UserMessages == {"hi"}
Tokens == {"a", "b"}
ConversationIds == {"c1", ""}

\* The setMessages updater of onChunk: the last message is overwritten when
\* it is an assistant message, otherwise an assistant message is pushed.
OnChunkMessages(prev, content) ==
  IF prev # <<>> /\ prev[Len(prev)].role = "assistant"
    THEN [prev EXCEPT ![Len(prev)].content = content]
    ELSE Append(prev, [role |-> "assistant", content |-> content])

\* sendMessage(message), up to the await of client.conversationalSearch.
SendMessage(message) ==
  /\ nextTurn <= MaxTurns
  /\ messages' = Append(messages, [role |-> "user", content |-> message])
  /\ isLoading' = TRUE
  /\ isStreaming' = streaming
  /\ convError' = Null
  /\ streamingContentRef' = IF streaming THEN "" ELSE streamingContentRef
  /\ turns' = turns @@ (nextTurn :> [phase |-> "fetching", tokens |-> <<>>,
                                     onErrorCalls |-> 0, setErrorCalls |-> 0])
  /\ nextTurn' = nextTurn + 1
  /\ resetSinceSend' = FALSE
  /\ UNCHANGED <<streaming, conversationId>>
  /\ UNCHANGED <<reqVars, isVars, wsVars, streamVars>>

\* Streaming: fetch resolves with a response that has a body; the read loop
\* of streamConversationalSearch starts.
ResponseArrives(t) ==
  /\ streaming
  /\ turns[t].phase = "fetching"
  /\ turns' = [turns EXCEPT ![t].phase = "reading"]
  /\ UNCHANGED <<streaming, messages, isLoading, isStreaming, convError,
                 conversationId, streamingContentRef, nextTurn, resetSinceSend>>
  /\ UNCHANGED <<reqVars, isVars, wsVars, streamVars>>

\* The call fails before there is a response body: request rejects, or the
\* fetch of streamConversationalSearch rejects (it is outside the try block
\* of the client, so the client calls no onError).  The catch block of
\* sendMessage sets error and calls options.onError; then the finally block.
CallFails(t) ==
  /\ turns[t].phase = "fetching"
  /\ convError' = [message |-> "Failed to fetch"]
  /\ turns' = [turns EXCEPT ![t].phase = "failed",
                            ![t].onErrorCalls = @ + 1,
                            ![t].setErrorCalls = @ + 1]
  /\ isLoading' = FALSE
  /\ isStreaming' = FALSE
  /\ UNCHANGED <<streaming, messages, conversationId, streamingContentRef,
                 nextTurn, resetSinceSend>>
  /\ UNCHANGED <<reqVars, isVars, wsVars, streamVars>>

\* Non-streaming: request resolves with the result; the assistant message is
\* appended and the conversation id stored; then the finally block.
CallSucceeds(t, cid) ==
  /\ ~streaming
  /\ turns[t].phase = "fetching"
  /\ messages' = Append(messages, [role |-> "assistant", content |-> "answer",
                                   sources |-> <<>>])
  /\ conversationId' = cid
  /\ turns' = [turns EXCEPT ![t].phase = "completed"]
  /\ isLoading' = FALSE
  /\ isStreaming' = FALSE
  /\ UNCHANGED <<streaming, convError, streamingContentRef, nextTurn,
                 resetSinceSend>>
  /\ UNCHANGED <<reqVars, isVars, wsVars, streamVars>>

\* The onChunk callback sendMessage gave to the client, called with a token.
OnChunk(t, chunk) ==
  /\ turns[t].phase = "reading"
  /\ Len(turns[t].tokens) < MaxTokens
  /\ streamingContentRef' = streamingContentRef \o chunk
  /\ messages' = OnChunkMessages(messages, streamingContentRef')
  /\ turns' = [turns EXCEPT ![t].tokens = Append(@, chunk)]
  /\ UNCHANGED <<streaming, isLoading, isStreaming, convError, conversationId,
                 nextTurn, resetSinceSend>>
  /\ UNCHANGED <<reqVars, isVars, wsVars, streamVars>>

\* The stream ends: the client calls onComplete and resolves; sendMessage
\* stores the conversation id; then the finally block.
StreamEnd(t, cid) ==
  /\ turns[t].phase = "reading"
  /\ isStreaming' = FALSE
  /\ conversationId' = cid
  /\ isLoading' = FALSE
  /\ turns' = [turns EXCEPT ![t].phase = "completed"]
  /\ UNCHANGED <<streaming, messages, convError, streamingContentRef, nextTurn,
                 resetSinceSend>>
  /\ UNCHANGED <<reqVars, isVars, wsVars, streamVars>>

\* Reading the stream fails: the catch block of the client calls the onError
\* callback of sendMessage (setError, options.onError) and rethrows; the
\* catch block of sendMessage then sets error and calls options.onError.
StreamFails(t) ==
  /\ turns[t].phase = "reading"
  /\ convError' = [message |-> "Failed to fetch"]
  /\ turns' = [turns EXCEPT ![t].phase = "failed",
                            ![t].onErrorCalls = @ + 2,
                            ![t].setErrorCalls = @ + 2]
  /\ isLoading' = FALSE
  /\ isStreaming' = FALSE
  /\ UNCHANGED <<streaming, messages, conversationId, streamingContentRef,
                 nextTurn, resetSinceSend>>
  /\ UNCHANGED <<reqVars, isVars, wsVars, streamVars>>

\* useConversationalSearch.reset()
ConvReset ==
  /\ messages' = <<>>
  /\ conversationId' = Null
  /\ convError' = Null
  /\ isLoading' = FALSE
  /\ isStreaming' = FALSE
  /\ resetSinceSend' = TRUE
  /\ UNCHANGED <<streaming, streamingContentRef, turns, nextTurn>>
  /\ UNCHANGED <<reqVars, isVars, wsVars, streamVars>>

InitConvState ==
  /\ messages = <<>>
  /\ isLoading = FALSE
  /\ isStreaming = FALSE
  /\ convError = Null
  /\ conversationId = Null
  /\ streamingContentRef = ""
  /\ turns = <<>>
  /\ nextTurn = 1
  /\ resetSinceSend = FALSE

NextConv ==
  \/ \E message \in UserMessages : SendMessage(message)
  \/ \E t \in DOMAIN turns : ResponseArrives(t)
  \/ \E t \in DOMAIN turns : CallFails(t)
  \/ \E t \in DOMAIN turns, cid \in ConversationIds : CallSucceeds(t, cid)
  \/ \E t \in DOMAIN turns, chunk \in Tokens : OnChunk(t, chunk)
  \/ \E t \in DOMAIN turns, cid \in ConversationIds : StreamEnd(t, cid)
  \/ \E t \in DOMAIN turns : StreamFails(t)
  \/ ConvReset

Init ==
  /\ InitReq /\ InitIS /\ InitWS /\ InitStreamState
  /\ responseBody = <<>> /\ responseStatus = 200
  /\ InitConvState /\ streaming = FALSE
\* The conversational hook, mounted with options.streaming on or off.
InitConv ==
  /\ InitReq /\ InitIS /\ InitWS /\ InitStreamState
  /\ responseBody = <<>> /\ responseStatus = 200
  /\ InitConvState /\ streaming \in BOOLEAN
InitStream ==
  /\ InitReq /\ InitIS /\ InitWS /\ InitStreamState
  /\ responseBody \in Bodies /\ responseStatus = 200
  /\ InitConvState /\ streaming = FALSE
\* The stream endpoint answers with an error status and an error body.
InitStreamHttp ==
  /\ InitReq /\ InitIS /\ InitWS /\ InitStreamState
  /\ responseBody \in StreamErrorBodies /\ responseStatus \in StreamErrorStatuses
  /\ InitConvState /\ streaming = FALSE

SpecReq == Init /\ [][NextReq]_vars
\* The runtime fires a timer that stays armed; nothing obliges the server to
\* send headers or a body.
TimeoutTask ==
  \E r \in DOMAIN reqs : TimeoutFire(r) /\ UNCHANGED <<isVars, wsVars, streamVars, convVars>>
SpecReqFair == Init /\ [][NextReq]_vars /\ WF_vars(TimeoutTask)
SpecIS == Init /\ [][NextIS]_vars
InitAnyFilters ==
  /\ InitReq /\ InitFilters /\ InitWS /\ InitStreamState
  /\ responseBody = <<>> /\ responseStatus = 200
  /\ InitConvState /\ streaming = FALSE
SpecFilters == InitAnyFilters /\ [][NextFilters]_vars
SpecWS == Init /\ [][NextWS]_vars
SpecWSIdle == Init /\ [][NextWSIdle]_vars
SpecStream == InitStream /\ [][NextStream]_vars
SpecStreamHttp == InitStreamHttp /\ [][NextStream]_vars
SpecConv == InitConv /\ [][NextConv]_vars

\* ===================================================================== claims
InFlight == {r \in DOMAIN reqs : reqs[r].owner = "hook" /\ reqs[r].phase # "settled"}

\* C1: a response is written to `results` only when it is the response of the
\* newest execution of performSearch: the response of an older execution that
\* arrives after a newer one was started is never written.
C1_OnlyNewestResultVisible ==
  [][(results' # results /\ results' # Null) => results'.req = lastReq]_vars

\* C2: at most one search request of the controller is in flight at any time.
C2_AtMostOneInFlight == Cardinality(InFlight) <= 1

C10_TimeoutSettlesWithCode ==
  \A r \in DOMAIN reqs :
    /\ reqs[r].phase = "fetching" => reqs[r].timer
    /\ reqs[r].timerFired =>
         /\ reqs[r].aborted
         /\ reqs[r].phase = "settled"
         /\ ~reqs[r].outcome.ok
         /\ reqs[r].outcome.err.code = "TIMEOUT"

C10_Witness ==
  \E r \in DOMAIN reqs :
    /\ reqs[r].timerFired /\ reqs[r].aborted /\ reqs[r].phase = "settled"
    /\ reqs[r].outcome.err.code = "TIMEOUT"

\* C4: after a caller-initiated disconnect, and until the caller calls connect
\* again, no step opens a new WebSocket and no step schedules a reconnect.
C4_NoReconnectAfterDisconnect ==
  [][(disconnected /\ disconnected') =>
       /\ nextSock' = nextSock
       /\ BagCardinality(reconnectTimers') <= BagCardinality(reconnectTimers)]_vars

\* C5: at most one WebSocket is connecting or open, and at most one reconnect
\* chain exists, at any time.
C5_SingleConnection ==
  Cardinality({s \in DOMAIN sockets : sockets[s].state \in {"connecting", "open"}})
    + BagCardinality(reconnectTimers) <= 1

\* C6: counting from the last 'connected' acknowledgment (or connect call), at
\* most maxReconnectAttempts automatic reconnects are scheduled, and the
\* attempt counter goes back to zero only in a step that receives the
\* 'connected' acknowledgment.
C6_AtMostMaxReconnects ==
  [][/\ schedSinceAck' <= maxReconnectAttempts
     /\ (wsReconnectAttempts # 0 /\ wsReconnectAttempts' = 0) =>
          \E s \in DOMAIN sockets :
            OnMessage(s, [json |-> TRUE, type |-> "connected"])]_vars

BackoffSequence == <<2000, 4000, 8000, 16000, 30000>>
C8_AuthenticatedOnlyByAck ==
  [][(~connected /\ connected') =>
       \E s \in DOMAIN sockets :
         OnMessage(s, [json |-> TRUE, type |-> "connected"])]_vars

\* C8 witness: a socket has opened, the auth frame went out on it and the
\* session is reported authenticated.
C8_Witness ==
  /\ connected
  /\ \E s \in DOMAIN sockets :
       sockets[s].state = "open" /\ sockets[s].sent = <<AuthFrame>>

\* C9: the outcome of a streaming turn does not depend on how the transport
\* splits the body into reads: once the turn has settled without a read
\* error of the transport, the answer and the onChunk calls are those of
\* feeding the whole body as one chunk.
SingleChunk(b) ==
  ReadChunk([fullAnswer |-> "", result |-> Null, chunks |-> <<>>,
             thrown |-> FALSE], <<>>, b).st
C9_IndependentOfChunking ==
  /\ settled = "resolved" =>
       /\ ~SingleChunk(responseBody).thrown
       /\ fullAnswer = SingleChunk(responseBody).fullAnswer
       /\ chunks = SingleChunk(responseBody).chunks
  /\ (settled = "rejected" /\ streamError = SyntaxError) =>
       SingleChunk(responseBody).thrown

\* C11: a call whose response has a status outside 200-299 settles with an
\* error carrying that status; code and details are those of a parsed error
\* body, the message is the body's when it has one and otherwise
\* 'API request failed: <status text>'; a body that does not parse gives that
\* default message and the parse exception does not escape.
C11_HttpErrorNormalized ==
  \A r \in DOMAIN reqs :
    (reqs[r].phase = "settled" /\ reqs[r].status \in HttpErrorStatuses) =>
      LET e == reqs[r].outcome.err
          b == reqs[r].body
          default == IF reqs[r].status = 404
                       THEN "API request failed: Not Found"
                       ELSE "API request failed: Internal Server Error"
      IN /\ ~reqs[r].outcome.ok
         /\ e.statusCode = reqs[r].status
         /\ ~e.raw /\ e.name # "SyntaxError"
         /\ b.parse => /\ e.code = b.code
                       /\ e.details = b.details
                       /\ e.message = IF b.message # Undefined THEN b.message
                                      ELSE default
         /\ ~b.parse => /\ e.message = default
                        /\ e.code = Undefined /\ e.details = Undefined

\* C11 witness: a 500 response whose body is not JSON has settled with the
\* default message, and a 404 response with a structured body with its fields.
C11_Witness ==
  /\ \E r \in DOMAIN reqs :
       /\ reqs[r].phase = "settled" /\ reqs[r].status = 500
       /\ ~reqs[r].body.parse
       /\ reqs[r].outcome.err.message = "API request failed: Internal Server Error"
       /\ reqs[r].outcome.err.statusCode = 500
  /\ \E r \in DOMAIN reqs :
       /\ reqs[r].phase = "settled" /\ reqs[r].status = 404
       /\ reqs[r].body.parse
       /\ reqs[r].outcome.err.message = "Invalid API key"
       /\ reqs[r].outcome.err.code = "AUTH"

\* C12: when fetch rejects with a network error, the error the call settles
\* with is a normalized error object, never the exception of the transport.
C12_TransportErrorNormalized ==
  \A r \in DOMAIN reqs :
    (reqs[r].phase = "settled" /\ reqs[r].status = 0 /\ ~reqs[r].timerFired) =>
      (~reqs[r].outcome.ok /\ ~reqs[r].outcome.err.raw)

\* C13: when an ok response carries a body that is not valid JSON, the call
\* settles with a normalized error object, never the parse exception.
C13_ParseErrorNormalized ==
  \A r \in DOMAIN reqs :
    (reqs[r].phase = "settled" /\ reqs[r].status = 200 /\ ~reqs[r].outcome.ok) =>
      ~reqs[r].outcome.err.raw

\* C14: every call of request eventually settles, whatever the server does.
C14_EveryCallSettles ==
  \A r \in 1..MaxRequests :
    (r \in DOMAIN reqs) ~> (r \in DOMAIN reqs /\ reqs[r].phase = "settled")

\* C15: the query compiled for a filter state and a query text: filter_by is
\* the groups '(f:=v1 || f:=v2 ...)' of the fields with a non-empty value list,
\* values in selection order, joined with ' && ', and is absent from the
\* request when no field has a value; q is '*' for an empty query text.
RECURSIVE JoinUpTo(_, _, _)
JoinUpTo(strs, n, sep) ==
  IF n = 1 THEN strs[1] ELSE JoinUpTo(strs, n - 1, sep) \o sep \o strs[n]
GroupOf(e) ==
  "(" \o JoinUpTo([i \in DOMAIN e.values |-> e.field \o ":=" \o e.values[i]],
                  Len(e.values), " || ") \o ")"
SelectedEntries(f) == SelectSeq(f, LAMBDA e : e.values # <<>>)
Compiles(params, ui) ==
  LET sel == SelectedEntries(ui.filters)
      groups == [i \in DOMAIN sel |-> GroupOf(sel[i])]
  IN /\ params.q = IF ui.query = "" THEN "*" ELSE ui.query
     /\ IF sel = <<>>
          THEN "filter_by" \notin SearchQueryKeys(params)
          ELSE /\ "filter_by" \in SearchQueryKeys(params)
               /\ params.filter_by = JoinUpTo(groups, Len(groups), " && ")
C15_QueryCompilation ==
  [][/\ \A t \in timers : DebounceFire(t) => Compiles(lastCall'.params, t.ui)
     /\ Refresh => Compiles(lastCall'.params, CurrentUi)]_vars

\* C15 witness: Audio was added to {category: [Electronics]} and the debounce
\* timer issued the query, with an empty query text.
C15_Witness ==
  /\ filters = <<Entry("category", <<"Electronics", "Audio">>)>>
  /\ query = "" /\ nextTimer = 3 /\ timers = {}
  /\ lastCall # Null /\ lastCall.by = "timer"
  /\ lastCall.params.q = "*"
  /\ lastCall.params.filter_by = "(category:=Electronics || category:=Audio)"

\* A step of addFilter, removeFilter or clearFilters.
FilterOp ==
  \/ \E field \in AllFields, value \in AllValues : AddFilter(field, value)
  \/ \E field \in AllFields, value \in AllValues : RemoveFilter(field, value)
  \/ ClearFilters
NoEmptyLists(f) == \A i \in DOMAIN f : f[i].values # <<>>
DuplicateFree(f) ==
  \A i \in DOMAIN f : \A j, k \in DOMAIN f[i].values :
    f[i].values[j] = f[i].values[k] => j = k

\* C16 as stated: from a filter state with no empty value list, a step of
\* addFilter, removeFilter or clearFilters leads to a filter state whose
\* every field has a non-empty, duplicate-free list.
C16_FromNoEmptyLists ==
  [][(NoEmptyLists(filters) /\ FilterOp) =>
       (NoEmptyLists(filters') /\ DuplicateFree(filters'))]_vars

\* C16 as amended: from a filter state whose lists are non-empty and
\* duplicate-free, a step of addFilter, removeFilter or clearFilters leads to
\* such a state; removing the only value of a field removes its key, and
\* adding a value already selected leaves the filter state unchanged.
C16_FiltersStayWellFormed ==
  [][(NoEmptyLists(filters) /\ DuplicateFree(filters)) =>
       /\ FilterOp => (NoEmptyLists(filters') /\ DuplicateFree(filters'))
       /\ \A field \in AllFields, value \in AllValues :
            /\ (RemoveFilter(field, value) /\ ValuesOf(filters, field) = <<value>>)
                 => ~HasField(filters', field)
            /\ (AddFilter(field, value) /\ Includes(ValuesOf(filters, field), value))
                 => filters' = filters]_vars

\* C16 witness: refresh() issued the query of {category: [Electronics],
\* brand: [Audio]}, and the one filter step since then, the removal of
\* Electronics, removed the key category.
C16_Witness ==
  /\ lastCall # Null /\ lastCall.by = "refresh"
  /\ lastCall.params.filter_by = "(category:=Electronics) && (brand:=Audio)"
  /\ nextTimer = 3
  /\ filters = <<Entry("brand", <<"Audio">>)>>

\* C17: a step of addFilter, removeFilter or clearFilters leaves page = 1 and
\* one pending debounce timer, whose closure holds page 1 and the new
\* filters; the query a debounce timer issues carries the page of its closure.
C17_FilterChangeResetsPage ==
  [][/\ FilterOp =>
          /\ page' = 1
          /\ timers' # {}
          /\ \A t \in timers' : /\ t.id = debounceTimerRef'
                                /\ t.ui.page = 1
                                /\ t.ui.filters = filters'
     /\ \A t \in timers : DebounceFire(t) => lastCall'.params.page = t.ui.page]_vars

\* C17 witness: refresh() issued a query with page 2, and the one filter step
\* since then left page = 1 and a timer whose closure holds page 1.
C17_Witness ==
  /\ lastCall # Null /\ lastCall.by = "refresh" /\ lastCall.params.page = 2
  /\ nextTimer = 3 /\ page = 1
  /\ filters = <<Entry("category", <<"Electronics">>)>>
  /\ timers = {[id |-> 2, ui |-> Ui(query, 1, filters, sortBy)]}

\* C18: totalPages is 0 while results is null, and otherwise the least
\* number of pages of resultsPerPage results that hold results.found results
\* (13 for found = 125, 0 for found = 0).
C18_TotalPages ==
  /\ results = Null => totalPages = 0
  /\ results # Null =>
       /\ totalPages * resultsPerPage >= results.found
       /\ (totalPages - 1) * resultsPerPage < results.found
       /\ results.found = 125 => totalPages = 13
       /\ results.found = 0 => totalPages = 0

C18_Witness == results # Null /\ results.found = 125 /\ totalPages = 13

\* C19: a step of reset() leaves query = '', results = null, error = null,
\* loading = false, page = 1, filters = defaultFilters and
\* sortBy = defaultSortBy.
C19_ResetRestoresDefaults ==
  [][Reset => /\ query' = "" /\ results' = Null /\ error' = Null
              /\ loading' = FALSE /\ page' = 1
              /\ filters' = defaultFilters /\ sortBy' = defaultSortBy]_vars

\* C19 witness: the query for 'laptop' has been answered (which sets results
\* or error), and results and error are null again, with every other field
\* at its default.
C19_Witness ==
  /\ lastReq = 1 /\ reqs = <<>> /\ lastCall.params.q = "laptop"
  /\ query = "" /\ results = Null /\ error = Null /\ loading = FALSE
  /\ page = 1 /\ filters = defaultFilters /\ sortBy = defaultSortBy

\* C20: the failure of a superseded request (one whose controller the hook
\* aborted) changes none of results, error and loading; every other failure
\* sets error to the normalized error and clears loading.
C20_SupersededFailureSilent ==
  [][\A r \in DOMAIN reqs :
       (PerformSearchResume(r) /\ ~reqs[r].outcome.ok) =>
         IF r \in hookAborted
           THEN UNCHANGED <<results, error, loading>>
           ELSE /\ error' # Null
                /\ error'.message = reqs[r].outcome.err.message
                /\ ~loading']_vars

\* The session is authenticated: the hook's connected flag is set and the
\* socket the client holds is open and has received the 'connected' frame.
Authenticated ==
  /\ connected
  /\ ws # 0
  /\ ReadyState(ws) = "open"
  /\ sockets[ws].acked

\* C21: subscribe(c) on an authenticated session sends exactly one subscribe
\* frame for c and adds c to the membership set when c is not a member, and
\* sends nothing and changes nothing when c is a member; a subscribe frame
\* for c goes out only in a step that makes c a member, so no second one is
\* sent while c remains a member.
C21_SubscribeOncePerMember ==
  [][\A c \in Collections :
       /\ (Subscribe(c) /\ Authenticated) =>
            IF c \notin subscribedCollections
              THEN /\ sockets' = [sockets EXCEPT
                                    ![ws].sent = Append(@, SubscribeFrame(c))]
                   /\ subscribedCollections' = subscribedCollections \cup {c}
              ELSE UNCHANGED <<sockets, subscribedCollections>>
       /\ (\E s \in DOMAIN sockets \cap DOMAIN sockets' :
             /\ Len(sockets'[s].sent) > Len(sockets[s].sent)
             /\ sockets'[s].sent[Len(sockets'[s].sent)] = SubscribeFrame(c))
            => (c \notin subscribedCollections /\ c \in subscribedCollections')
    ]_vars
C21_Witness ==
  /\ Authenticated
  /\ subscribedCollections = {"products"}
  /\ sockets[ws].sent = <<AuthFrame, SubscribeFrame("products")>>

\* The session is not authenticated yet: the client holds no socket, or a
\* socket still connecting, or one that is open without a 'connected' frame.
NotYetAuthenticated ==
  \/ ws = 0
  \/ ReadyState(ws) = "connecting"
  \/ ReadyState(ws) = "open" /\ ~sockets[ws].acked

\* C22: subscribe(c) before the session is authenticated sends no frame and
\* leaves the membership set unchanged.
C22_NoSubscribeBeforeAuthenticated ==
  [][\A c \in Collections :
       (Subscribe(c) /\ NotYetAuthenticated)
         => UNCHANGED <<sockets, subscribedCollections>>]_vars

\* C23: an inbound update frame for a collection that is in the membership
\* set appends exactly one event {type: action, collection, document} to
\* updates, and one for a collection that is not in the set appends nothing.
C23_UpdatesOnlyForMembers ==
  [][\A s \in DOMAIN sockets :
       \A frame \in {x \in ServerFrames : x.json /\ x.type = "update"} :
         OnMessage(s, frame) =>
           IF frame.collection \in subscribedCollections
             THEN updates' = Append(updates,
                               [type |-> frame.action,
                                collection |-> frame.collection,
                                document |-> frame.document])
             ELSE updates' = updates]_vars

\* C24: an inbound frame that is not valid JSON is dropped without effect:
\* the sockets, the socket held, the connected flag, the membership set,
\* the updates and the reconnect state are unchanged, and a socket that is
\* open after a dropped frame still dispatches the next valid frame.
C24_MalformedFrameDropped ==
  /\ [][\A s \in DOMAIN sockets :
          OnMessage(s, [json |-> FALSE]) =>
            UNCHANGED <<ws, sockets, connected, subscribedCollections, updates,
                        wsReconnectAttempts, reconnectTimers>>]_vars
  /\ [](frameDropped =>
          \A s \in DOMAIN sockets :
            sockets[s].state = "open" =>
              ENABLED OnMessage(s, [json |-> TRUE, type |-> "connected"]))
C24_Witness ==
  /\ frameDropped
  /\ Authenticated
  /\ subscribedCollections = {"products"}
  /\ Len(updates) = 1

\* C28: disconnect() is total and idempotent: from any state it leaves the
\* session with no socket connecting or open, no socket held, connected
\* false and an empty membership set, and on a session already in that
\* state it changes nothing.
C28_DisconnectTotalIdempotent ==
  [][Disconnect =>
       /\ ws' = 0
       /\ ~connected'
       /\ subscribedCollections' = {}
       /\ \A s \in DOMAIN sockets' :
            sockets'[s].state \notin {"connecting", "open"}
       /\ (ws = 0 /\ ~connected /\ subscribedCollections = {})
            => UNCHANGED <<sockets, nextSock, wsReconnectAttempts,
                           reconnectTimers, updates>>]_vars

RECURSIVE TwoToThe(_)
TwoToThe(n) == IF n = 0 THEN 1 ELSE 2 * TwoToThe(n - 1)
CappedDelay(n) == IF 1000 * TwoToThe(n) > 30000 THEN 30000 ELSE 1000 * TwoToThe(n)

\* C29: every reconnect that is scheduled has the delay min(1000 * 2^n, 30000)
\* with n the attempt counter after its increment; no delay exceeds 30000
\* and the delays of consecutive failed attempts never decrease.
C29_DelayFormula ==
  /\ [][\A s \in DOMAIN sockets, withError \in BOOLEAN :
          (OnClose(s, withError) /\ reconnectTimers' # reconnectTimers) =>
            reconnectTimers' =
              reconnectTimers (+) SetToBag({CappedDelay(wsReconnectAttempts')})
       ]_vars
  /\ [](\A i \in DOMAIN delayLog :
          /\ delayLog[i] = CappedDelay(i)
          /\ delayLog[i] <= 30000
          /\ i > 1 => delayLog[i - 1] <= delayLog[i])
C29_Witness ==
  /\ Len(delayLog) = 5
  /\ delayLog[4] = 16000
  /\ delayLog[5] = 30000
  /\ BagIn(30000, reconnectTimers)

\* C30: when the socket of an authenticated session closes, with or
\* without an error event, connected is false afterwards (and stays false
\* until a 'connected' frame arrives on a later socket).
C30_CloseClearsConnected ==
  [][\A s \in DOMAIN sockets, withError \in BOOLEAN :
       (Authenticated /\ s = ws /\ OnClose(s, withError)) => ~connected']_vars

\* The records the server wrote into the body, and the contents of its
\* token records in the order written.
RecordSeqs == UNION {[1..n -> Records] : n \in 0..MaxRecords}
RecordsOf(b) == CHOOSE rs \in RecordSeqs : Flatten(rs) = b
RECURSIVE TokenContents(_)
TokenContents(rs) ==
  IF rs = <<>> THEN <<>>
  ELSE (IF Head(rs) = TokenRecord(<<"a">>) THEN <<"a">>
        ELSE IF Head(rs) = TokenRecord(<<"c3", "a9">>) THEN <<"E">>
        ELSE <<>>) \o TokenContents(Tail(rs))
RECURSIVE Concat(_)
Concat(strs) == IF strs = <<>> THEN "" ELSE Head(strs) \o Concat(Tail(strs))
HasResultRecord(rs) == \E i \in DOMAIN rs : rs[i] = ResultRecord

\* C25: when the stream ends, onComplete has been called exactly once and
\* onError not at all, and the promise resolves with the concatenation of
\* the contents of all token records as the answer and with
\* conversation_id, sources and suggested_questions of the result record,
\* or '', an empty hit list with found 0, and [] when there was none.
C25_StreamEndAggregate ==
  settled = "resolved" =>
    LET rs == RecordsOf(responseBody)
    IN /\ completeCalls = 1
       /\ errorCalls = 0
       /\ resolvedWith.answer = Concat(TokenContents(rs))
       /\ IF HasResultRecord(rs)
            THEN /\ resolvedWith.conversation_id = ResultData.conversation_id
                 /\ resolvedWith.sources = ResultData.sources
                 /\ resolvedWith.suggested_questions =
                      ResultData.suggested_questions
            ELSE /\ resolvedWith.conversation_id = ""
                 /\ resolvedWith.sources = [hits |-> <<>>, found |-> 0]
                 /\ resolvedWith.suggested_questions = <<>>

\* C26: when reading the stream fails after some tokens were delivered,
\* onError is called once and the promise rejects, onComplete is never
\* called, no further onChunk call is made, and the chunks already
\* delivered stay delivered.
C26_ReadFailureRejects ==
  /\ [][ReadError =>
          /\ errorCalls' = errorCalls + 1
          /\ settled' = "rejected"
          /\ chunks' = chunks
          /\ completeCalls' = completeCalls]_vars
  /\ [](streamError = TypeError =>
          (settled = "rejected" /\ errorCalls = 1 /\ completeCalls = 0))
  /\ [][streamError = TypeError =>
          (chunks' = chunks /\ completeCalls' = 0 /\ settled' = "rejected")]_vars
  /\ [][/\ Len(chunks') >= Len(chunks)
        /\ SubSeq(chunks', 1, Len(chunks)) = chunks]_vars
C26_Witness ==
  /\ settled = "rejected"
  /\ streamError = TypeError
  /\ chunks = <<"a">>
  /\ delivered < Len(responseBody)
  /\ errorCalls = 1
  /\ completeCalls = 0

\* C27: onChunk is called once for each token record of the stream, in the
\* order of the records, before the stream's aggregate is produced, and a
\* line that does not start with 'data: ' causes no call.
C27_ChunkPerTokenRecord ==
  /\ settled = "resolved" => chunks = TokenContents(RecordsOf(responseBody))
  /\ completeCalls > 0 => settled = "resolved"

\* C31: on an authenticated session every collection of the membership set
\* has had a subscribe frame sent on the socket the client holds; in
\* particular the subscriptions are sent again on a socket opened by an
\* automatic reconnect.
C31_MembersSubscribedOnCurrentSocket ==
  Authenticated =>
    \A c \in subscribedCollections :
      \E i \in DOMAIN sockets[ws].sent : sockets[ws].sent[i] = SubscribeFrame(c)

\* C32: every socket that has opened has sent the auth frame as its first
\* frame, at its open event, so no subscribe frame precedes the auth frame
\* on any socket.
C32_AuthFrameFirst ==
  \A s \in DOMAIN sockets :
    /\ sockets[s].state \in {"open", "closing"} =>
         (sockets[s].sent # <<>> /\ sockets[s].sent[1] = AuthFrame)
    /\ sockets[s].sent # <<>> => sockets[s].sent[1] = AuthFrame

\* C33: request has cleared its timeout timer on every path by which a call
\* settles (success, HTTP error, transport failure, abort), so the timer of a
\* settled call never fires and aborts nothing.
C33_TimerClearedOnExit ==
  /\ [](\A r \in DOMAIN reqs : reqs[r].phase = "settled" => ~reqs[r].timer)
  /\ [][\A r \in DOMAIN reqs :
          reqs[r].phase = "settled" =>
            /\ reqs'[r].timerFired = reqs[r].timerFired
            /\ reqs'[r].aborted = reqs[r].aborted]_vars
C33_Witness ==
  \E r1, r2 \in DOMAIN reqs :
    /\ reqs[r1].phase = "settled" /\ reqs[r1].outcome.ok /\ ~reqs[r1].timer
    /\ reqs[r2].phase = "settled" /\ ~reqs[r2].outcome.ok
    /\ ~reqs[r2].timerFired /\ ~reqs[r2].timer

\* C34: a streaming search whose response has a status outside 200-299 is
\* rejected; it never resolves as a successful answer.
C34_StreamHttpErrorRejected ==
  settled = "resolved" => responseStatus \in 200..299

\* C35: in streaming mode, after reset() messages stays empty and
\* conversationId stays null until the next sendMessage call, whatever the
\* stream that was being read delivers later.
C35_ResetStopsSink ==
  (streaming /\ resetSinceSend) => (messages = <<>> /\ conversationId = Null)

\* C36: in streaming mode, after every chunk the last entry of messages is
\* an assistant message whose content is the concatenation, in arrival
\* order, of the tokens received so far by the call that produced the chunk.
C36_LastMessageIsTurnContent ==
  [][\A t \in DOMAIN turns, chunk \in Tokens :
       OnChunk(t, chunk) =>
         /\ messages' # <<>>
         /\ messages'[Len(messages')].role = "assistant"
         /\ messages'[Len(messages')].content = Concat(turns'[t].tokens)]_vars

\* C39: for every sendMessage call that has failed, options.onError was
\* called exactly once and error was set once, in either mode and whether
\* the failure came before the response body or while reading the stream.
C39_OnErrorOncePerFailure ==
  \A t \in DOMAIN turns :
    turns[t].phase = "failed" =>
      (turns[t].onErrorCalls = 1 /\ turns[t].setErrorCalls = 1)

\* Some request of the hook other than r has not been resumed yet.
NewerPending(r) ==
  \E q \in DOMAIN reqs : q > r /\ reqs[q].owner = "hook"

\* C37: loading stays true while a search request of the hook is pending:
\* the completion of an older request clears neither loading nor the
\* current-request handle while a newer request is still pending.
C37_OlderCompletionKeepsLoading ==
  [][\A r \in DOMAIN reqs :
       (PerformSearchResume(r) /\ NewerPending(r)) =>
         UNCHANGED <<loading, abortControllerRef>>]_vars

\* C38: the response of a request issued before reset() changes none of
\* results, error and loading.
C38_NoEffectOfPreResetRequests ==
  [][\A r \in DOMAIN reqs :
       (reqs[r].preReset /\ PerformSearchResume(r)) =>
         UNCHANGED <<results, error, loading>>]_vars

====
